---- MODULE Spec2Model ----
(***************************************************************************)
(* A model of unparam's analysis (src/main.go): the signature catalogue    *)
(* funcSigns, the stub heuristic dummyImpl, the scan for unused parameters *)
(* and the sorted, filtered list of warnings returned by unusedParams.     *)
(*                                                                         *)
(* Go strings that the code only compares are TLA+ strings; strings the    *)
(* code builds or matches are sequences of tokens (signString) or of       *)
(* single characters (the callee names matched by rxHarmlessCall).         *)
(* Go indices start at 0, the sequences here at 1.                         *)
(***************************************************************************)
EXTENDS Integers, Sequences, FiniteSets, TLC

VARIABLES prog, pc, wantPkg, funcSigns, pkgIdx, order, potential, idx, warns,
          dblk, dpc, dres

vars == <<prog, pc, wantPkg, funcSigns, pkgIdx, order, potential, idx, warns,
          dblk, dpc, dres>>

\* Bounds of the model: how many functions and type declarations a program
\* holds, and how long an entry block handed to dummyImpl alone may be.
MaxFuncs == 2
MaxTypes == 1
MaxBlockLen == 3

Range(s) == {s[i] : i \in 1..Len(s)}

----------------------------------------------------------------------------
(* go/types: types and their strings                                       *)

Basic(n) == [kind |-> "basic", name |-> n, params |-> <<>>, results |-> <<>>]

\* A *types.Signature: params is a tuple of variables (name, type), results a
\* tuple of variables; the receiver is not part of either.
Func(ps, rs) == [kind |-> "func", name |-> "", params |-> ps, results |-> rs]

Var(n, t) == [name |-> n, type |-> t]

tInt == Basic("int")
tString == Basic("string")

RECURSIVE Concat(_)
Concat(ss) == IF ss = <<>> THEN <<>> ELSE Head(ss) \o Concat(Tail(ss))

\* types.Type.String(): a function type is written WITH the names of its
\* parameters, func(g func(int)) string.
RECURSIVE TypeString(_)
TypeString(t) ==
    IF t.kind = "basic" THEN <<t.name>>
    ELSE LET par(i) == (IF i > 1 THEN <<", ">> ELSE <<>>)
                       \o (IF t.params[i].name # "" THEN <<t.params[i].name, " ">> ELSE <<>>)
                       \o TypeString(t.params[i].type)
             res(i) == (IF i > 1 THEN <<", ">> ELSE <<>>)
                       \o (IF t.results[i].name # "" THEN <<t.results[i].name, " ">> ELSE <<>>)
                       \o TypeString(t.results[i].type)
             ps == Concat([i \in 1..Len(t.params) |-> par(i)])
             rs == Concat([i \in 1..Len(t.results) |-> res(i)])
         IN  <<"func", "(">> \o ps \o <<")">>
             \o (IF Len(t.results) = 0 THEN <<>>
                 ELSE IF Len(t.results) = 1 /\ t.results[1].name = ""
                      THEN <<" ">> \o rs
                      ELSE <<" ", "(">> \o rs \o <<")">>)

\* tupleJoin writes "(" T1 ", " T2 ... ")" with the type strings only.
tupleJoin(t) ==
    <<"(">>
    \o Concat([i \in 1..Len(t) |->
                 (IF i > 1 THEN <<", ">> ELSE <<>>) \o TypeString(t[i].type)])
    \o <<")">>

\* signString: the parameter tuple followed by the result tuple.
signString(sign) == tupleJoin(sign.params) \o tupleJoin(sign.results)

----------------------------------------------------------------------------
(* go/ssa: instructions, callees, the stub heuristic                       *)

\* The text of a callee (x.Call.Value.String()) as a sequence of characters,
\* and its bare name (x.Call.Value.Name()).
Callee(str, name) == [str |-> str, name |-> name]
NoCallee == Callee(<<>>, "")

cLogPrintln == Callee(<<"l","o","g",".","P","r","i","n","t","l","n">>, "Println")
cFmtFprintf == Callee(<<"f","m","t",".","F","p","r","i","n","t","f">>, "Fprintf")
cFmtSprintf == Callee(<<"f","m","t",".","S","p","r","i","n","t","f">>, "Sprintf")
cThrow == Callee(<<"r","u","n","t","i","m","e",".","t","h","r","o","w">>, "throw")
cLoggerThrow == Callee(<<"L","o","g","g","e","r",".","t","h","r","o","w">>, "throw")
cCatalogAdd == Callee(<<"c","a","t","a","l","o","g",".","A","d","d">>, "Add")
cLogsAdd == Callee(<<"l","o","g","s",".","A","d","d">>, "Add")

UpperToLower ==
    [c \in {"A","F","L","P","S"} |->
        CASE c = "A" -> "a" [] c = "F" -> "f" [] c = "L" -> "l"
          [] c = "P" -> "p" [] c = "S" -> "s"]

ToLower(c) == IF c \in DOMAIN UpperToLower THEN UpperToLower[c] ELSE c

\* \w of the regular expression: letters, digits, underscore.
IsWordChar(c) ==
    ToLower(c) \in {"a","b","c","d","e","f","g","h","i","j","k","l","m","n","o",
                    "p","q","r","s","t","u","v","w","x","y","z",
                    "0","1","2","3","4","5","6","7","8","9","_"}

\* \b before the character at index i (i = Len(s)+1: at the end of the text).
WordBoundary(s, i) ==
    LET before == i > 1 /\ i - 1 <= Len(s) /\ IsWordChar(s[i - 1])
        after  == i >= 1 /\ i <= Len(s) /\ IsWordChar(s[i])
    IN  before # after

\* The characters of lit stand at index i of s, case folded ((?i)).
LitAt(s, i, lit) ==
    /\ i + Len(lit) - 1 <= Len(s)
    /\ \A k \in 1..Len(lit) : ToLower(s[i + k - 1]) = lit[k]

\* rxHarmlessCall = (?i)\blog(ger)?\b|\bf?print, matched anywhere in s.
rxHarmlessCallMatch(s) ==
    \E i \in 1..Len(s) :
        /\ WordBoundary(s, i)
        /\ \/ /\ LitAt(s, i, <<"l","o","g">>)
              /\ \/ WordBoundary(s, i + 3)
                 \/ /\ LitAt(s, i + 3, <<"g","e","r">>)
                    /\ WordBoundary(s, i + 6)
           \/ LitAt(s, i, <<"p","r","i","n","t">>)
           \/ /\ LitAt(s, i, <<"f">>)
              /\ LitAt(s, i + 1, <<"p","r","i","n","t">>)

\* An instruction: its kind (the Go type of the ssa.Instruction), the kinds of
\* the results of a Return ("Const" for *ssa.Const), the callee of a Call.
Instr(k) == [kind |-> k, results |-> <<>>, callee |-> NoCallee]
Return(rs) == [kind |-> "Return", results |-> rs, callee |-> NoCallee]
Call(c) == [kind |-> "Call", results |-> <<>>, callee |-> c]

\* The instruction kinds dummyImpl steps over.
PureKinds ==
    {"Alloc", "Store", "UnOp", "BinOp", "MakeInterface", "MakeMap", "Extract",
     "IndexAddr", "FieldAddr", "Slice", "Lookup", "ChangeType", "TypeAssert",
     "Convert", "ChangeInterface"}

\* One pass of the switch in dummyImpl's loop: "next" goes on to the next
\* instruction, "true" and "false" return.
instrVerdictHarmlessStops(x) ==
    IF x.kind \in PureKinds THEN "next"
    ELSE IF x.kind = "Return"
         THEN (IF \E i \in 1..Len(x.results) : x.results[i] # "Const"
               THEN "false" ELSE "true")
    ELSE IF x.kind = "Panic" THEN "true"
    ELSE IF x.kind = "Call"
         THEN (IF x.callee.name = "throw" THEN "true" ELSE "false")
    ELSE "false"

instrVerdictAnyReturn(x) ==
    IF x.kind \in PureKinds THEN "next"
    ELSE IF x.kind = "Return" THEN "true"
    ELSE IF x.kind = "Panic" THEN "true"
    ELSE IF x.kind = "Call"
         THEN (IF rxHarmlessCallMatch(x.callee.str) THEN "next"
               ELSE IF x.callee.name = "throw" THEN "true" ELSE "false")
    ELSE "false"

instrVerdictNeedsResult(x) ==
    IF x.kind \in PureKinds THEN "next"
    ELSE IF x.kind = "Return"
         THEN (IF Len(x.results) = 0
                  \/ \E i \in 1..Len(x.results) : x.results[i] # "Const"
               THEN "false" ELSE "true")
    ELSE IF x.kind = "Panic" THEN "true"
    ELSE IF x.kind = "Call"
         THEN (IF rxHarmlessCallMatch(x.callee.str) THEN "next"
               ELSE IF x.callee.name = "throw" THEN "true" ELSE "false")
    ELSE "false"

instrVerdict(x) ==
    IF x.kind \in PureKinds THEN "next"
    ELSE IF x.kind = "Return"
         THEN (IF \E i \in 1..Len(x.results) : x.results[i] # "Const"
               THEN "false" ELSE "true")
    ELSE IF x.kind = "Panic" THEN "true"
    ELSE IF x.kind = "Call"
         THEN (IF rxHarmlessCallMatch(x.callee.str) THEN "next"
               ELSE IF x.callee.name = "throw" THEN "true" ELSE "false")
    ELSE "false"

\* dummyImpl(blk): the loop over blk.Instrs; false when the block runs out.
RECURSIVE dummyFrom(_, _)
dummyFrom(instrs, i) ==
    IF i > Len(instrs) THEN FALSE
    ELSE LET v == instrVerdict(instrs[i])
         IN  IF v = "next" THEN dummyFrom(instrs, i + 1) ELSE v = "true"

dummyImpl(blk) == dummyFrom(blk, 1)

----------------------------------------------------------------------------
(* go/token: positions                                                     *)

\* The file set of the loaded program: each file's name (characters), base,
\* size and the offsets at which its lines start.  The files were added in
\* this order, which is not the order of their names.
Fset ==
    << [name |-> <<"/","w","/","b",".","g","o">>, base |-> 1, size |-> 120,
        lines |-> <<0, 20, 40, 60, 80, 100>>],
       [name |-> <<"/","w","/","a",".","g","o">>, base |-> 122, size |-> 120,
        lines |-> <<0, 20, 40, 60, 80, 100>>],
       [name |-> <<"/","g","/","d",".","g","o">>, base |-> 243, size |-> 40,
        lines |-> <<0, 20>>] >>

\* os.Getwd()
wd == <<"/","w">>

NoPosition == [filename |-> <<>>, file |-> 0, line |-> 0, column |-> 0]

\* prog.Fset.Position(p): the file holding p, the last line starting at or
\* before p's offset, the column counted from 1.
Position(p) ==
    LET holds == {f \in 1..Len(Fset) : Fset[f].base <= p /\ p <= Fset[f].base + Fset[f].size}
    IN  IF p = 0 \/ holds = {} THEN NoPosition
        ELSE LET f == CHOOSE g \in holds : TRUE
                 off == p - Fset[f].base
                 ln == CHOOSE l \in 1..Len(Fset[f].lines) :
                          /\ Fset[f].lines[l] <= off
                          /\ \A m \in 1..Len(Fset[f].lines) :
                                Fset[f].lines[m] <= off => m <= l
             IN  [filename |-> Fset[f].name, file |-> f, line |-> ln,
                  column |-> off - Fset[f].lines[ln] + 1]

HasPrefix(s, p) == Len(p) <= Len(s) /\ SubSeq(s, 1, Len(p)) = p

\* The warning of a parameter: its position as file:line:column, cut to be
\* relative to wd when it starts with wd, and its name.
warnLine(par) ==
    LET at == Position(par.pos)
        file == IF HasPrefix(at.filename, wd)
                THEN SubSeq(at.filename, Len(wd) + 2, Len(at.filename))
                ELSE at.filename
    IN  [file |-> file, line |-> at.line, column |-> at.column, name |-> par.name]

----------------------------------------------------------------------------
(* The programs analysed                                                   *)

\* prog.AllPackages(); a function of no package has Pkg == nil, "" here.
AllPackages == <<"main", "dep">>
NoPkg == ""

tFnInt == Func(<<Var("", tInt)>>, <<>>)
tFnNested == Func(<<Var("g", tFnInt)>>, <<>>)
tFnString == Func(<<Var("", tString)>>, <<>>)
tFnNone == Func(<<>>, <<>>)

Par(f, i, n, p, r) == [fn |-> f, i |-> i, name |-> n, pos |-> p, refs |-> r]

notStub == << <<Instr("BinOp"), Call(cCatalogAdd), Return(<<>>)>> >>

\* The functions of ssautil.AllFunctions: id, owning package, whether it is a
\* member of its package (a package-level function), whether it has a
\* receiver, its signature (receiver excluded), its parameters (receiver
\* first) with their positions and numbers of referrers, its blocks.
FuncPool ==
    { \* func F(x int, y string) { catalog.Add(x + 1) }
      [id |-> "F", pkg |-> "main", member |-> TRUE, recv |-> FALSE,
       sig |-> Func(<<Var("x", tInt), Var("y", tString)>>, <<>>),
       params |-> <<Par("F", 1, "x", 8, 1), Par("F", 2, "y", 15, 0)>>,
       blocks |-> notStub],
      \* func S(a int) int { return 0 }
      [id |-> "S", pkg |-> "main", member |-> TRUE, recv |-> FALSE,
       sig |-> Func(<<Var("a", tInt)>>, <<Var("", tInt)>>),
       params |-> <<Par("S", 1, "a", 28, 0)>>,
       blocks |-> << <<Return(<<"Const">>)>> >>],
      \* func P(a string) { panic("unimplemented") }
      [id |-> "P", pkg |-> "main", member |-> TRUE, recv |-> FALSE,
       sig |-> Func(<<Var("a", tString)>>, <<>>),
       params |-> <<Par("P", 1, "a", 48, 0)>>,
       blocks |-> << <<Instr("Panic")>> >>],
      \* func E(q int), declared without a body
      [id |-> "E", pkg |-> "main", member |-> TRUE, recv |-> FALSE,
       sig |-> Func(<<Var("q", tInt)>>, <<>>),
       params |-> <<Par("E", 1, "q", 68, 0)>>,
       blocks |-> <<>>],
      \* func W(v int, u int) { if ... { return }; ... }: two blocks
      [id |-> "W", pkg |-> "main", member |-> TRUE, recv |-> FALSE,
       sig |-> Func(<<Var("v", tInt), Var("u", tInt)>>, <<>>),
       params |-> <<Par("W", 1, "v", 88, 0), Par("W", 2, "u", 95, 0)>>,
       blocks |-> << <<Instr("If")>>, <<Return(<<>>)>> >>],
      \* func U(int, t string) { catalog.Add(1) }
      [id |-> "U", pkg |-> "main", member |-> TRUE, recv |-> FALSE,
       sig |-> Func(<<Var("", tInt), Var("t", tString)>>, <<>>),
       params |-> <<Par("U", 1, "", 108, 0), Par("U", 2, "t", 113, 0)>>,
       blocks |-> notStub],
      \* func A(a, b, c int) int { x := a + b; return x }
      [id |-> "A", pkg |-> "main", member |-> TRUE, recv |-> FALSE,
       sig |-> Func(<<Var("a", tInt), Var("b", tInt), Var("c", tInt)>>, <<Var("", tInt)>>),
       params |-> <<Par("A", 1, "a", 129, 1), Par("A", 2, "b", 132, 1),
                    Par("A", 3, "c", 135, 0)>>,
       blocks |-> << <<Instr("BinOp"), Return(<<"Value">>)>> >>],
      \* func H(cb func(int)) { }
      [id |-> "H", pkg |-> "main", member |-> TRUE, recv |-> FALSE,
       sig |-> Func(<<Var("cb", tFnInt)>>, <<>>),
       params |-> <<Par("H", 1, "cb", 149, 0)>>,
       blocks |-> << <<Return(<<>>)>> >>],
      \* func (r *T) G(_ int, used string, cb func(string)) { catalog.Add(used) }
      [id |-> "G", pkg |-> "main", member |-> FALSE, recv |-> TRUE,
       sig |-> Func(<<Var("_", tInt), Var("used", tString), Var("cb", tFnString)>>, <<>>),
       params |-> <<Par("G", 1, "r", 168, 0), Par("G", 2, "_", 172, 0),
                    Par("G", 3, "used", 175, 1), Par("G", 4, "cb", 188, 1)>>,
       blocks |-> notStub],
      \* func K(f func(g func(int)), k string) { f(nil); catalog.Add(1) }
      [id |-> "K", pkg |-> "main", member |-> TRUE, recv |-> FALSE,
       sig |-> Func(<<Var("f", tFnNested), Var("k", tString)>>, <<>>),
       params |-> <<Par("K", 1, "f", 189, 1), Par("K", 2, "k", 200, 0)>>,
       blocks |-> notStub],
      \* package dep: func D(z int) { catalog.Add(1) }
      [id |-> "D", pkg |-> "dep", member |-> TRUE, recv |-> FALSE,
       sig |-> Func(<<Var("z", tInt)>>, <<>>),
       params |-> <<Par("D", 1, "z", 250, 0)>>,
       blocks |-> notStub],
      \* package dep: func C(h func(a int, b string), w int) { h(1, "") }
      [id |-> "C", pkg |-> "dep", member |-> TRUE, recv |-> FALSE,
       sig |-> Func(<<Var("h", Func(<<Var("a", tInt), Var("b", tString)>>, <<>>)),
                      Var("w", tInt)>>, <<>>),
       params |-> <<Par("C", 1, "h", 270, 1), Par("C", 2, "w", 277, 0)>>,
       blocks |-> notStub],
      \* a synthetic wrapper of no package: its parameter has no position
      [id |-> "B", pkg |-> NoPkg, member |-> FALSE, recv |-> FALSE,
       sig |-> Func(<<Var("x", tInt)>>, <<>>),
       params |-> <<Par("B", 1, "x", 0, 0)>>,
       blocks |-> notStub] }

\* The type declarations: id, package, the kind of the underlying type and
\* what it holds: the field types of a struct, the method signatures of an
\* interface, the signature of a named function type.
TypePool ==
    { \* package dep: type I interface { M(a int, b string) }
      [id |-> "I", pkg |-> "dep", under |-> "interface",
       elems |-> <<Func(<<Var("a", tInt), Var("b", tString)>>, <<>>)>>],
      \* type T struct { n int; cb func(int) }
      [id |-> "T", pkg |-> "main", under |-> "struct",
       elems |-> <<tInt, tFnInt>>],
      \* type Fn func(a, b, c int) (n int)
      [id |-> "Fn", pkg |-> "main", under |-> "func",
       elems |-> <<Func(<<Var("a", tInt), Var("b", tInt), Var("c", tInt)>>,
                        <<Var("n", tInt)>>)>>],
      \* type Closer interface { Close(); Write(s string) }
      [id |-> "Closer", pkg |-> "main", under |-> "interface",
       elems |-> <<tFnNone, Func(<<Var("s", tString)>>, <<>>)>>],
      \* package dep: type N int
      [id |-> "N", pkg |-> "dep", under |-> "other", elems |-> <<tInt>>] }

FuncIds == {f.id : f \in FuncPool}
TypeIds == {t.id : t \in TypePool}
Fn(id) == CHOOSE f \in FuncPool : f.id = id
Ty(id) == CHOOSE t \in TypePool : t.id = id

\* lprog.InitialPackages(): the packages named on the command line.
InitialChoices == {{"main"}, {"main", "dep"}}

Programs ==
    [funcs : {s \in SUBSET FuncIds : Cardinality(s) <= MaxFuncs},
     types : {s \in SUBSET TypeIds : Cardinality(s) <= MaxTypes},
     initial : InitialChoices]

----------------------------------------------------------------------------
(* unusedParams: the signature catalogue                                   *)

\* addSign's guard: t is a signature with at least one parameter.
addableAnyFunc(t) == t.kind = "func"

addable(t) == t.kind = "func" /\ Len(t.params) # 0

\* addSign(t) for every t of ts, on the catalogue fs.
addSigns(fs, ts) == fs \cup {signString(t) : t \in {u \in ts : addable(u)}}

\* The types a member hands to addSign: a package-level function the types of
\* its parameters; a type declaration the field types of its struct, the
\* method types of its interface or its own signature; nothing otherwise.
funcMemberTypes(fn) == {fn.sig.params[i].type : i \in 1..Len(fn.sig.params)}

typeMemberTypes(td) ==
    IF td.under \in {"struct", "interface", "func"} THEN Range(td.elems) ELSE {}

\* pkg.Members of package p in program pr.
memberFuncs(pr, p) == {f \in FuncPool : f.id \in pr.funcs /\ f.pkg = p /\ f.member}
memberTypes(pr, p) == {t \in TypePool : t.id \in pr.types /\ t.pkg = p}

\* The body of the loop over prog.AllPackages() for package p.
addPackage(fs, pr, p) ==
    addSigns(fs, UNION ({funcMemberTypes(f) : f \in memberFuncs(pr, p)}
                        \cup {typeMemberTypes(t) : t \in memberTypes(pr, p)}))

----------------------------------------------------------------------------
(* unusedParams: the scan, the sort, the filter                            *)

wantedAny(w, fn) == TRUE

\* wantPkg[fn.Pkg.Pkg]
wanted(w, fn) == fn.pkg \in w

isReceiverNever(fn, i) == FALSE

\* i == 0 && fn.Signature.Recv() != nil
isReceiver(fn, i) == i = 1 /\ fn.recv

\* par.Object().Name() is "" or "_"
unnamed(par) == par.name \in {"", "_"}

usedNever(par) == FALSE

\* len(*par.Referrers()) > 0
used(par) == par.refs > 0

\* The parameters one pass of the loop over the functions appends.
candidates(w, fn) ==
    IF fn.pkg = NoPkg THEN <<>>
    ELSE IF Len(fn.blocks) = 0 THEN <<>>
    ELSE IF ~wanted(w, fn) THEN <<>>
    ELSE IF dummyImpl(fn.blocks[1]) THEN <<>>
    ELSE LET keep(par) == ~isReceiver(fn, par.i) /\ ~unnamed(par) /\ ~used(par)
         IN  SelectSeq(fn.params, keep)

lessPosReversed(a, b) == a.pos > b.pos

\* The less function handed to sort.Slice.
lessPos(a, b) == a.pos < b.pos

sortSliceNone(s) == {s}

\* sort.Slice(s, less) is not stable: any permutation of s that less leaves
\* no pair of out of order.
sortSlice(s) ==
    LET n == Len(s)
        perms == {p \in [1..n -> 1..n] : \A i, j \in 1..n : i # j => p[i] # p[j]}
    IN  {[i \in 1..n |-> s[p[i]]] : p \in
            {q \in perms : \A i, j \in 1..n : i < j => ~lessPos(s[q[j]], s[q[i]])}}

couldBeRequiredNever(fs, par) == FALSE

\* funcSigns[signString(par.Parent().Signature)]
couldBeRequired(fs, par) == signString(Fn(par.fn).sig) \in fs

----------------------------------------------------------------------------
(* The run of unusedParams on a program, and dummyImpl on a block alone    *)

InstrPool ==
    {Instr("BinOp"), Instr("Store"), Instr("MakeInterface"), Instr("ChangeInterface"),
     Return(<<>>), Return(<<"Const">>), Return(<<"Value">>), Return(<<"Const", "Value">>),
     Instr("Panic"), Instr("If"), Instr("Phi"),
     Call(cLogPrintln), Call(cFmtFprintf), Call(cFmtSprintf), Call(cThrow),
     Call(cLoggerThrow), Call(cCatalogAdd), Call(cLogsAdd)}

Blocks == UNION {[1..n -> InstrPool] : n \in 0..MaxBlockLen}

Idle ==
    /\ prog = [funcs |-> {}, types |-> {}, initial |-> {"main"}]
    /\ pc = "done" /\ wantPkg = {} /\ funcSigns = {} /\ pkgIdx = 1
    /\ order = <<>> /\ potential = <<>> /\ idx = 1 /\ warns = <<>>

Init ==
    /\ prog \in Programs
    /\ pc = "load"
    /\ wantPkg = {}
    /\ funcSigns = {}
    /\ pkgIdx = 1
    /\ order = <<>>
    /\ potential = <<>>
    /\ idx = 1
    /\ warns = <<>>
    /\ dblk = <<>> /\ dpc = "off" /\ dres = FALSE

\* wantPkg: the initial packages.
Load ==
    /\ pc = "load"
    /\ wantPkg' = prog.initial
    /\ pc' = "signs"
    /\ UNCHANGED <<prog, funcSigns, pkgIdx, order, potential, idx, warns, dblk, dpc, dres>>

\* One package of prog.AllPackages(), in order; after the last, the scan.
AddPackage ==
    /\ pc = "signs"
    /\ pkgIdx <= Len(AllPackages)
    /\ funcSigns' = addPackage(funcSigns, prog, AllPackages[pkgIdx])
    /\ pkgIdx' = pkgIdx + 1
    /\ pc' = IF pkgIdx = Len(AllPackages) THEN "scan" ELSE "signs"
    /\ UNCHANGED <<prog, wantPkg, order, potential, idx, warns, dblk, dpc, dres>>

\* One function of ssautil.AllFunctions(prog), a map: in any order; order
\* holds the functions visited so far.
VisitFunc ==
    /\ pc = "scan"
    /\ \E id \in prog.funcs \ Range(order) :
          /\ potential' = potential \o candidates(wantPkg, Fn(id))
          /\ order' = Append(order, id)
    /\ UNCHANGED <<prog, pc, wantPkg, funcSigns, pkgIdx, idx, warns, dblk, dpc, dres>>

\* All functions visited: sort.Slice(potential, ...), warns made empty.
Sort ==
    /\ pc = "scan"
    /\ Range(order) = prog.funcs
    /\ potential' \in sortSlice(potential)
    /\ warns' = <<>>
    /\ idx' = 1
    /\ pc' = "filter"
    /\ UNCHANGED <<prog, wantPkg, funcSigns, pkgIdx, order, dblk, dpc, dres>>

\* One pass of the loop over the sorted potential.
Filter ==
    /\ pc = "filter"
    /\ idx <= Len(potential)
    /\ warns' = IF couldBeRequired(funcSigns, potential[idx]) THEN warns
                ELSE Append(warns, warnLine(potential[idx]))
    /\ idx' = idx + 1
    /\ UNCHANGED <<prog, pc, wantPkg, funcSigns, pkgIdx, order, potential, dblk, dpc, dres>>

\* return warns, nil
Finish ==
    /\ pc = "filter"
    /\ idx > Len(potential)
    /\ pc' = "done"
    /\ UNCHANGED <<prog, wantPkg, funcSigns, pkgIdx, order, potential, idx, warns, dblk, dpc, dres>>

Next == Load \/ AddPackage \/ VisitFunc \/ Sort \/ Filter \/ Finish

Spec == Init /\ [][Next]_vars

\* dummyImpl applied to an entry block of up to MaxBlockLen instructions.
InitDummy ==
    /\ Idle
    /\ dblk \in Blocks
    /\ dpc = "call"
    /\ dres = FALSE

CallDummyImpl ==
    /\ dpc = "call"
    /\ dres' = dummyImpl(dblk)
    /\ dpc' = "returned"
    /\ UNCHANGED <<prog, pc, wantPkg, funcSigns, pkgIdx, order, potential, idx, warns, dblk>>

NextDummy == CallDummyImpl

SpecDummy == InitDummy /\ [][NextDummy]_vars

----------------------------------------------------------------------------
(* Vocabulary of the properties                                            *)

Done == pc = "done"

ProgFuncs == {f \in FuncPool : f.id \in prog.funcs}
ProgTypes == {t \in TypePool : t.id \in prog.types}
AllParams == UNION {Range(f.params) : f \in ProgFuncs}

\* The parameter at (Go) position i - 1 of the function named id.
ParamOf(id, i) == Fn(id).params[i]

\* A warning line for the parameter is in the output.
Reported(par) == \E k \in 1..Len(warns) : warns[k] = warnLine(par)

\* Every parameter of the pool has its own source position, as in a Go file.
PositionsDistinct ==
    \A f, g \in FuncPool : \A i \in 1..Len(f.params), j \in 1..Len(g.params) :
        (f.id # g.id \/ i # j) => f.params[i].pos # g.params[j].pos

\* The shape of a signature with names erased: the type strings of the
\* parameters and those of the results.
Shape(t) ==
    << [i \in 1..Len(t.params) |-> TypeString(t.params[i].type)],
       [i \in 1..Len(t.results) |-> TypeString(t.results[i].type)] >>

\* The function-shaped types with at least one parameter that the program
\* declares as a struct field type, an interface method or a named function
\* type, in any package.
DeclaredTypeSigns ==
    {t \in UNION {Range(d.elems) : d \in {e \in ProgTypes : e.under # "other"}} :
        t.kind = "func" /\ Len(t.params) >= 1}

\* Those occurring as the type of a parameter of a package-level function.
DeclaredParamSigns ==
    {t \in UNION {{f.sig.params[i].type : i \in 1..Len(f.sig.params)} :
                    f \in {g \in ProgFuncs : g.member}} :
        t.kind = "func" /\ Len(t.params) >= 1}

\* The claim's candidate: a named, non-receiver parameter without referrers
\* of a function with a body, not a stub, of a root package.
IsCandidate(par) ==
    LET f == Fn(par.fn)
    IN  /\ f.pkg \in prog.initial
        /\ Len(f.blocks) > 0
        /\ ~dummyImpl(f.blocks[1])
        /\ ~(f.recv /\ par.i = 1)
        /\ par.name \notin {"", "_"}
        /\ par.refs = 0

----------------------------------------------------------------------------
(* C1: func H(cb func(int)) { }                                            *)

\* No field, interface method or named function type of the program has the
\* signature of the function named id.
NoDeclarationHasSign(id) ==
    \A t \in DeclaredTypeSigns : Shape(t) # Shape(Fn(id).sig)

\* C1 as stated: for a program whose only function is H, in a root package,
\* with cb unreferenced and no field, interface method or function type of
\* H's signature, unusedParams returns exactly one warning, for cb.
C1_OneWarningForCb ==
    (Done /\ prog.funcs = {"H"} /\ NoDeclarationHasSign("H"))
        => warns = <<warnLine(ParamOf("H", 1))>>

\* C1 amended: H's entry block is a lone return without results, which
\* dummyImpl takes for a stub, so no warning is ever produced for cb; a
\* program whose only function is H gets no warning at all.
C1_EmptyBodyIsStub ==
    /\ "H" \in prog.funcs => ~Reported(ParamOf("H", 1))
    /\ (Done /\ prog.funcs = {"H"}) => warns = <<>>

C1_Witness ==
    /\ Done
    /\ prog.funcs = {"H"}
    /\ NoDeclarationHasSign("H")
    /\ ParamOf("H", 1).refs = 0
    /\ order = <<"H">>
    /\ warns = <<>>

----------------------------------------------------------------------------
(* C2: contract suppression                                                *)

\* C2: when unusedParams returns, a candidate parameter is missing from the
\* output exactly when the normalized signature of its function is in the
\* catalogue; F(x int, y string) gets no warning for y when the interface
\* method M(a int, b string) is declared (here in the dependency), and gets
\* one when no declaration of the program has that shape.
C2_ContractSuppression ==
    Done =>
        /\ \A par \in AllParams :
              IsCandidate(par) =>
                  (~Reported(par) <=> signString(Fn(par.fn).sig) \in funcSigns)
        /\ ("F" \in prog.funcs /\ "I" \in prog.types) => ~Reported(ParamOf("F", 2))
        /\ ("F" \in prog.funcs
              /\ \A t \in DeclaredTypeSigns \cup DeclaredParamSigns :
                    Shape(t) # Shape(Fn("F").sig))
              => Reported(ParamOf("F", 2))

C2_Witness ==
    /\ Done
    /\ "F" \in prog.funcs
    /\ "I" \in prog.types
    /\ prog.initial = {"main"}
    /\ \E k \in 1..Len(potential) : potential[k] = ParamOf("F", 2)
    /\ ~Reported(ParamOf("F", 2))

----------------------------------------------------------------------------
(* C3: ordering                                                            *)

\* (file, line, column) of a before that of b; files in the order of the
\* file set.
PositionBefore(a, b) ==
    \/ a.file < b.file
    \/ a.file = b.file /\ a.line < b.line
    \/ a.file = b.file /\ a.line = b.line /\ a.column < b.column

\* The candidate a warning line was made for.
ParamOfLine(w) == CHOOSE par \in Range(potential) : warnLine(par) = w

\* The place of a parameter in potential.
PlaceOf(par) == CHOOSE k \in 1..Len(potential) : potential[k] = par

----------------------------------------------------------------------------
(* C4: determinism                                                         *)

RECURSIVE SeqOfSet(_)
SeqOfSet(S) ==
    IF S = {} THEN <<>>
    ELSE LET x == CHOOSE y \in S : TRUE IN <<x>> \o SeqOfSet(S \ {x})

RECURSIVE CatalogFrom(_, _)
CatalogFrom(pr, k) ==
    IF k = 0 THEN {} ELSE addPackage(CatalogFrom(pr, k - 1), pr, AllPackages[k])

\* The output of a run that visits the functions in the order ord.
OutputInOrder(pr, ord) ==
    LET pot == Concat([i \in 1..Len(ord) |-> candidates(pr.initial, Fn(ord[i]))])
        sorted == CHOOSE s \in sortSlice(pot) : TRUE
        cat == CatalogFrom(pr, Len(AllPackages))
        keep(par) == ~couldBeRequired(cat, par)
        kept == SelectSeq(sorted, keep)
    IN  [i \in 1..Len(kept) |-> warnLine(kept[i])]

\* C4: whatever the order in which the run visited the functions, the list it
\* returns is, line for line, the list of the run that visits them in one
\* fixed order.
C4_Deterministic ==
    Done => warns = OutputInOrder(prog, SeqOfSet(prog.funcs))

\* A run that visited the functions in another order than the fixed one, and
\* appended the candidates against the order of their positions.
C4_Witness ==
    /\ Done
    /\ Len(warns) >= 2
    /\ order # SeqOfSet(prog.funcs)
    /\ \E par \in Range(Fn(order[1]).params), qar \in Range(Fn(order[2]).params) :
          Reported(par) /\ Reported(qar) /\ par.pos > qar.pos

----------------------------------------------------------------------------
(* C5: stub suppression                                                    *)

ReturnsConstants(blk) ==
    /\ Len(blk) = 1
    /\ blk[1].kind = "Return"
    /\ Len(blk[1].results) >= 1
    /\ \A i \in 1..Len(blk[1].results) : blk[1].results[i] = "Const"

OnlyPanics(blk) == Len(blk) = 1 /\ blk[1].kind = "Panic"

ReturnsBinOp(blk) ==
    /\ Len(blk) = 2
    /\ blk[1].kind = "BinOp"
    /\ blk[2].kind = "Return"
    /\ \E i \in 1..Len(blk[2].results) : blk[2].results[i] # "Const"

\* C5: no parameter of a function whose entry block is exactly a return of
\* constants or exactly a panic is ever reported; when unusedParams returns,
\* every named, non-receiver, unreferenced parameter of a root-package
\* function whose entry block is a binary operation followed by the return of
\* a non-constant is reported, unless the function's signature is in the
\* catalogue.
C5_StubSuppression ==
    /\ \A f \in ProgFuncs :
          (Len(f.blocks) > 0 /\ (ReturnsConstants(f.blocks[1]) \/ OnlyPanics(f.blocks[1])))
              => \A par \in Range(f.params) : ~Reported(par)
    /\ Done =>
          \A f \in ProgFuncs :
              (Len(f.blocks) > 0 /\ ReturnsBinOp(f.blocks[1]) /\ f.pkg \in prog.initial)
                  => \A par \in Range(f.params) :
                        (/\ par.name \notin {"", "_"}
                         /\ ~(f.recv /\ par.i = 1)
                         /\ par.refs = 0
                         /\ signString(f.sig) \notin funcSigns)
                            => Reported(par)

\* A return of a constant beside a return of a computed value: the first
\* function silent though its signature is not catalogued, the second
\* reported.
C5_Witness ==
    /\ Done
    /\ prog.funcs = {"S", "A"}
    /\ signString(Fn("S").sig) \notin funcSigns
    /\ ~Reported(ParamOf("S", 1))
    /\ Reported(ParamOf("A", 3))

----------------------------------------------------------------------------
(* C6: used parameters                                                     *)

\* C6: in no state is there a warning line for a parameter that has a
\* referrer.
C6_UsedNeverReported ==
    \A par \in AllParams : par.refs > 0 => ~Reported(par)

\* F scanned and reported for its unreferenced y, silent about its used x.
C6_Witness ==
    /\ Done
    /\ "F" \in prog.funcs
    /\ ParamOf("F", 1).refs > 0
    /\ Reported(ParamOf("F", 2))
    /\ ~Reported(ParamOf("F", 1))

----------------------------------------------------------------------------
(* C7: scope                                                               *)

\* C7: in no state is there a warning for a parameter of a function whose
\* package is not an initial package, that has no package, or that has no
\* blocks; and when unusedParams returns, the catalogue holds the signature of
\* every function type with a parameter declared by a member of any package,
\* the packages that are not initial included.
C7_ScopeRestriction ==
    /\ \A f \in ProgFuncs :
          (f.pkg = NoPkg \/ f.pkg \notin prog.initial \/ Len(f.blocks) = 0)
              => \A par \in Range(f.params) : ~Reported(par)
    /\ Done =>
          \A t \in DeclaredTypeSigns \cup DeclaredParamSigns : signString(t) \in funcSigns

\* The dependency is not a root: its function D is silent, and its interface
\* I still keeps F's y out of the output.
C7_Witness ==
    /\ Done
    /\ prog.initial = {"main"}
    /\ prog.funcs = {"D", "F"}
    /\ prog.types = {"I"}
    /\ Fn("D").pkg = "dep" /\ Ty("I").pkg = "dep"
    /\ ParamOf("D", 1).refs = 0
    /\ signString(Fn("D").sig) \notin funcSigns
    /\ signString(Fn("F").sig) \in funcSigns
    /\ warns = <<>>

----------------------------------------------------------------------------
(* C8: receiver and blank parameters                                       *)

\* C8: in no state is there a warning for the receiver of a method or for a
\* parameter named "" or "_"; and when unusedParams returns, the first
\* parameter of a function without receiver, if it is a candidate whose
\* signature is not in the catalogue, is reported.
C8_BlankReceiverExclusion ==
    /\ \A f \in ProgFuncs : \A par \in Range(f.params) :
          ((f.recv /\ par.i = 1) \/ par.name \in {"", "_"}) => ~Reported(par)
    /\ Done =>
          \A f \in ProgFuncs :
              (~f.recv /\ Len(f.params) >= 1 /\ IsCandidate(f.params[1])
                 /\ signString(f.sig) \notin funcSigns)
                  => Reported(f.params[1])

\* The method G, not a stub and of no catalogued signature, is silent about
\* its unreferenced receiver r and its blank parameter; W's first parameter
\* is reported.
C8_Witness ==
    /\ Done
    /\ prog.funcs = {"G", "W"}
    /\ signString(Fn("G").sig) \notin funcSigns
    /\ ~dummyImpl(Fn("G").blocks[1])
    /\ ParamOf("G", 1).refs = 0 /\ ParamOf("G", 2).name = "_"
    /\ ~Reported(ParamOf("G", 1))
    /\ ~Reported(ParamOf("G", 2))
    /\ Reported(ParamOf("W", 1))

----------------------------------------------------------------------------
(* C9: dummyImpl's decision                                                *)

\* An instruction the scan does not step over: neither one of the pure kinds
\* nor a call of a harmless callee.
Decides(x) ==
    /\ x.kind \notin PureKinds
    /\ ~(x.kind = "Call" /\ rxHarmlessCallMatch(x.callee.str))

\* What the claim says the deciding instruction yields.
DecisionOf(x) ==
    CASE x.kind = "Return" -> \A i \in 1..Len(x.results) : x.results[i] = "Const"
      [] x.kind = "Panic" -> TRUE
      [] x.kind = "Call" -> x.callee.name = "throw"
      [] OTHER -> FALSE

\* C9: the result of dummyImpl is that of the first deciding instruction of
\* the block, and false when the block has none.
C9_DecisionProcedure ==
    dpc = "returned" =>
        LET ds == {i \in 1..Len(dblk) : Decides(dblk[i])}
        IN  IF ds = {} THEN dres = FALSE
            ELSE dres = DecisionOf(dblk[CHOOSE i \in ds : \A j \in ds : i <= j])

\* A pure instruction, a harmless call, then the call of throw: true.
C9_Witness ==
    /\ dpc = "returned"
    /\ Len(dblk) = 3
    /\ dblk[1].kind \in PureKinds
    /\ dblk[2] = Call(cLogPrintln)
    /\ dblk[3] = Call(cThrow)
    /\ dres = TRUE

\* The callees of the model against the regular expression, one by one.
CalleesAgainstRegexp ==
    /\ rxHarmlessCallMatch(cLogPrintln.str)
    /\ rxHarmlessCallMatch(cFmtFprintf.str)
    /\ rxHarmlessCallMatch(cLoggerThrow.str)
    /\ ~rxHarmlessCallMatch(cFmtSprintf.str)
    /\ ~rxHarmlessCallMatch(cThrow.str)
    /\ ~rxHarmlessCallMatch(cCatalogAdd.str)
    /\ ~rxHarmlessCallMatch(cLogsAdd.str)

----------------------------------------------------------------------------
(* C10: the content of the catalogue                                       *)

\* The function types met in t, t included, going into the types of the
\* parameters.
RECURSIVE NestedSigns(_)
NestedSigns(t) ==
    IF t.kind # "func" THEN {}
    ELSE {t} \cup UNION {NestedSigns(t.params[i].type) : i \in 1..Len(t.params)}

\* C10 as stated: the catalogue is the set of the normalized signatures of
\* the function types with a parameter that are a field type, an interface
\* method, a named function type, or the type of a parameter of a function
\* declaration or, recursively, of a parameter of such a type.
C10_RecursiveCatalogue ==
    Done =>
        funcSigns =
            {signString(t) : t \in
                {u \in DeclaredTypeSigns \cup UNION {NestedSigns(v) : v \in DeclaredParamSigns} :
                    Len(u.params) >= 1}}

\* C10 amended: the catalogue is the set of the normalized signatures of the
\* function types with a parameter that are a field type, an interface
\* method, a named function type, or the type itself of a parameter of a
\* package-level function (not the types nested in it, not the parameters of
\* methods); no signature in it has an empty parameter tuple.
C10_DirectCatalogue ==
    Done =>
        /\ funcSigns = {signString(t) : t \in DeclaredTypeSigns \cup DeclaredParamSigns}
        /\ \A s \in funcSigns : s[1] = "(" /\ s[2] # ")"

\* K(f func(g func(int)), k string): the type of f is catalogued, the type of
\* g is not.
C10_Witness ==
    /\ Done
    /\ prog.funcs = {"K"}
    /\ prog.types = {"Closer"}
    /\ signString(tFnNested) \in funcSigns
    /\ signString(tFnInt) \notin funcSigns
    /\ signString(tFnString) \in funcSigns
    /\ Cardinality(funcSigns) = 2

====
